---------------------------- MODULE Spec2Model ----------------------------
(***************************************************************************)
(* A model of lettersmith: the Doc record and its disk cache (doc.py), the *)
(* permalink mapper (permalink.py) and the site-build orchestrator         *)
(* (bin/site.py).                                                          *)
(*                                                                         *)
(* Four specifications share the module:                                   *)
(*   SpecCache     DocCache / DocCacheDir: dump, load, scope exit          *)
(*   SpecPermalink map_doc_permalink over bounded Docs and templates       *)
(*   SpecParse     uplift_meta, parse_frontmatter, parse_yaml, parse_json  *)
(*   SpecBuild     main(): one build from configuration to summary         *)
(* Each one leaves the other specifications' variables untouched.          *)
(***************************************************************************)
EXTENDS Integers, Sequences, FiniteSets, TLC

VARIABLES
    \* --- DocCache / DocCacheDir (doc.py:305-377)
    dirExists,      \* the TemporaryDirectory is on disk
    files,          \* cache file name -> pickled Doc
    scope,          \* "constructed" | "entered" | "exited"
    exitHow,        \* "none" | "normal" | "raised": how the with-block ended
    history,        \* the Docs dumped so far, in order (observer)
    lastOp,         \* the last operation and the id path it was given
    ret,            \* what the last dump/load returned or raised
    \* --- map_doc_permalink (permalink.py)
    pdoc,           \* the Doc given to map_doc_permalink
    ptemplates,     \* permalink_templates: section -> path template
    ppc,            \* "ready" | "done"
    pret,           \* what map_doc_permalink returned or raised
    \* --- uplift_meta and the parsers (doc.py:159-291)
    qdoc,           \* the Doc given to the parser
    qfun,           \* the parser applied
    qenv,           \* what the installed libraries do where versions differ
    qpc,            \* "ready" | "parsed" | "once" | "twice"
    qret,           \* what the parser returned or raised
    qup1,           \* uplift_meta of the parsed Doc
    qup2,           \* uplift_meta of qup1's Doc
    \* --- main() (bin/site.py)
    bpc,            \* where main() is
    config,         \* args.config
    config0,        \* args.config as it was loaded (observer)
    sources,        \* the content files, in the order the globs give them
    idx,            \* how many of them dump_all has taken
    pending,        \* the generated Docs not yet rendered
    cached,         \* id paths still to come from the second load_all
    written,        \* output paths written, in order
    stats,          \* stats["written"]
    stdout,         \* the lines printed
    error,          \* the exception that ended main(), or None
    events,         \* what ran, and the cache's state as it ran (observer)
    copyResult,     \* "none" | "ok" | "CalledProcessError"
    static_paths    \* the local static_paths

cacheVars == <<dirExists, files, scope, exitHow, history, lastOp, ret>>
permVars == <<pdoc, ptemplates, ppc, pret>>
parseVars == <<qdoc, qfun, qenv, qpc, qret, qup1, qup2>>
buildVars ==
    <<bpc, config, config0, sources, idx, pending, cached, written, stats,
      stdout, error, events, copyResult, static_paths>>

vars == <<cacheVars, permVars, parseVars, buildVars>>

\* What each specification leaves alone.
notCache == <<permVars, parseVars, buildVars>>
notPerm == <<cacheVars, parseVars, buildVars>>
notParse == <<cacheVars, permVars, buildVars>>
notBuild == <<history, lastOp, ret, permVars, parseVars>>

-----------------------------------------------------------------------------
(* Python values                                                           *)

\* A call either returns a value or raises an exception.
Return(v) == [kind |-> "return", value |-> v]
Raise(e) == [kind |-> "raise", exc |-> e]
Exc(type) == [type |-> type]

\* Values whose Python type varies (meta values, title, input_path) are tagged.
PyNone == [t |-> "NoneType"]
PyStr(s) == [t |-> "str", s |-> s]
PyNum(n) == [t |-> "float", n |-> n]
PyDatetime(y, m, d) == [t |-> "datetime", year |-> y, month |-> m, day |-> d]

\* lettersmith.date.EPOCH
EPOCH == PyDatetime(1970, 1, 1)

_EMPTY_TUPLE == <<>>

\* An empty mapping: a function with no keys.
EmptyDict == [k \in {} |-> PyNone]

\* A dict, and the other values a parsed YAML or JSON body can be.
PyDict(items) == [t |-> "dict", items |-> items]
PyList(items) == [t |-> "list", items |-> items]

\* The namedtuple Doc: its ten fields, in declaration order.
DocFields ==
    <<"id_path", "output_path", "input_path", "created", "modified",
      "title", "content", "section", "meta", "templates">>

Doc(id_path, output_path, input_path, created, modified, title, content, section, meta, templates) ==
    [id_path |-> id_path, output_path |-> output_path,
     input_path |-> input_path, created |-> created, modified |-> modified,
     title |-> title, content |-> content, section |-> section,
     meta |-> meta, templates |-> templates]

-----------------------------------------------------------------------------
(* The variables of a specification that is not the one running            *)

CacheIdle ==
    /\ dirExists = FALSE
    /\ files = EmptyDict
    /\ scope = "idle"
    /\ exitHow = "none"
    /\ history = <<>>
    /\ lastOp = [op |-> "none", id_path |-> ""]
    /\ ret = Return(PyNone)

ParseIdle ==
    /\ qdoc = PyNone
    /\ qfun = "none"
    /\ qenv = [yaml_needs_loader |-> FALSE, bad_date |-> "raise"]
    /\ qpc = "idle"
    /\ qret = Return(PyNone)
    /\ qup1 = Return(PyNone)
    /\ qup2 = Return(PyNone)

PermIdle ==
    /\ pdoc = PyNone
    /\ ptemplates = EmptyDict
    /\ ppc = "idle"
    /\ pret = Return(PyNone)

BuildIdle ==
    /\ bpc = "idle"
    /\ config = EmptyDict
    /\ config0 = EmptyDict
    /\ sources = <<>>
    /\ idx = 0
    /\ pending = <<>>
    /\ cached = {}
    /\ written = <<>>
    /\ stats = 0
    /\ stdout = <<>>
    /\ error = PyNone
    /\ events = {}
    /\ copyResult = "none"
    /\ static_paths = <<>>

-----------------------------------------------------------------------------
(* The bounded inputs of the cache                                         *)

CollA == "TEXTCOLLBYfGiJUETHQ4hAcKSMd5zYpgqf1YRDhkmxHkhPWptrkoyz28wnI9V0aHeAuaKnak"
CollB == "TEXTCOLLBYfGiJUETHQ4hEcKSMd5zYpgqf1YRDhkmxHkhPWptrkoyz28wnI9V0aHeAuaKnak"

\* id paths the cache is driven with: two content files and two generated
\* Docs whose id paths differ in one character.
CacheIdPaths == {"posts/hello.md", "about.md", CollA, CollB}

CacheContents == {"<p>one</p>", "<p>two</p>"}

\* The longest run of dumps followed.
MaxDumps == 3

CacheDocOf(id, content) ==
    Doc(id,
        IF id = "posts/hello.md" THEN "posts/hello/index.html"
        ELSE IF id = "about.md" THEN "about/index.html" ELSE id,
        IF id \in {"posts/hello.md", "about.md"}
            THEN PyStr("content/" \o id) ELSE PyNone,
        IF id = "posts/hello.md" THEN PyDatetime(2023, 5, 1) ELSE EPOCH,
        IF id = "posts/hello.md" THEN PyDatetime(2023, 5, 1) ELSE EPOCH,
        PyStr(IF id = "posts/hello.md" THEN "Hello" ELSE "Untitled"),
        content,
        IF id = "posts/hello.md" THEN "posts" ELSE "",
        PyDict(IF id = "about.md" THEN [title |-> PyStr("About")] ELSE EmptyDict),
        IF id = "posts/hello.md" THEN <<"posts.html", "default.html">>
        ELSE _EMPTY_TUPLE)

CacheDocs == {CacheDocOf(id, c) : id \in CacheIdPaths, c \in CacheContents}

-----------------------------------------------------------------------------
(* DocCache                                                                *)

\* hashlib.md5(str(s).encode()).hexdigest(): the digests of the id paths used.
_hashstr(s) ==
    CASE s = "posts/hello.md" -> "b12471fdd907a48fcf044812e1eea8d8"
      [] s = "about.md" -> "6083a88ee3411b0d17ce02d738f69d47"
      [] s = CollA -> "faad49866e9498fc1719f5289e7a0269"
      [] s = CollB -> "faad49866e9498fc1719f5289e7a0269"
      [] s = "notes/2023/trip.yaml" -> "31a6bf718c11d53bfaa5a4bb189ee779"
      [] s = "data.json" -> "edba02854c29b21582400e7a9936e108"

\* PurePath(_hashstr(id_path)).with_suffix('.pkl')
_cache_path(id_path) == _hashstr(id_path) \o ".pkl"

\* pickle.dump of a namedtuple: its class and its fields in order.
pickle_dump(d) ==
    [cls |-> "lettersmith.doc.Doc",
     args |-> [i \in 1..Len(DocFields) |-> d[DocFields[i]]]]

\* A pickle.load that coerces input_path as the doc() constructor does its
\* string fields.
pickle_load_str(p) ==
    Doc(p.args[1], p.args[2],
        IF p.args[3] = PyNone THEN PyStr("None") ELSE p.args[3],
        p.args[4], p.args[5],
        p.args[6], p.args[7], p.args[8], p.args[9], p.args[10])

\* pickle.load: the class applied to the stored fields.
pickle_load(p) ==
    Doc(p.args[1], p.args[2], p.args[3], p.args[4], p.args[5],
        p.args[6], p.args[7], p.args[8], p.args[9], p.args[10])

\* DocCache.dump: open(cache_path / name, "wb") needs the directory.
dump_result(d) ==
    IF dirExists THEN Return(d) ELSE Raise(Exc("FileNotFoundError"))

dump_files(d) ==
    IF dirExists
        THEN [n \in DOMAIN files \cup {_cache_path(d.id_path)} |->
                 IF n = _cache_path(d.id_path) THEN pickle_dump(d) ELSE files[n]]
        ELSE files

\* DocCache.load: open(cache_path / name, "rb") needs the file.
load(id_path) ==
    IF dirExists /\ _cache_path(id_path) \in DOMAIN files
        THEN Return(pickle_load(files[_cache_path(id_path)]))
        ELSE Raise(Exc("FileNotFoundError"))

\* cache.dump(doc), from DocCacheDir.__init__ (dump_all) or inside the scope.
Dump(d) ==
    /\ Len(history) < MaxDumps
    /\ files' = dump_files(d)
    /\ ret' = dump_result(d)
    /\ history' = IF dirExists THEN Append(history, d) ELSE history
    /\ lastOp' = [op |-> "dump", id_path |-> d.id_path]
    /\ UNCHANGED <<dirExists, scope, exitHow, notCache>>

\* cache.load(id_path)
Load(id_path) ==
    /\ ret' = load(id_path)
    /\ lastOp' = [op |-> "load", id_path |-> id_path]
    /\ UNCHANGED <<dirExists, files, scope, exitHow, history, notCache>>

\* DocCacheDir.__enter__
Enter ==
    /\ scope = "constructed"
    /\ scope' = "entered"
    /\ lastOp' = [op |-> "enter", id_path |-> ""]
    /\ UNCHANGED <<dirExists, files, exitHow, history, ret, notCache>>

\* A __exit__ that cleans up only when the block ended without an exception.
DocCacheDir_exit_on_success(how) ==
    /\ scope' = "exited"
    /\ exitHow' = how
    /\ dirExists' = (how # "normal")
    /\ files' = IF how = "normal" THEN EmptyDict ELSE files

\* DocCacheDir.__exit__(*args): TemporaryDirectory.__exit__ removes the
\* directory and everything in it, whatever args are.
DocCacheDir_exit(how) ==
    /\ scope' = "exited"
    /\ exitHow' = how
    /\ dirExists' = FALSE
    /\ files' = EmptyDict

\* The with-block over the cache ends, normally or by a raised exception.
ExitScope(how) ==
    /\ scope = "entered"
    /\ DocCacheDir_exit(how)
    /\ lastOp' = [op |-> "exit", id_path |-> ""]
    /\ UNCHANGED <<history, ret, notCache>>

CacheInit ==
    /\ PermIdle
    /\ ParseIdle
    /\ BuildIdle
    /\ dirExists = TRUE
    /\ files = EmptyDict
    /\ scope = "constructed"
    /\ exitHow = "none"
    /\ history = <<>>
    /\ lastOp = [op |-> "none", id_path |-> ""]
    /\ ret = Return(PyNone)

CacheNext ==
    \/ \E d \in CacheDocs : Dump(d)
    \/ \E id \in CacheIdPaths : Load(id)
    \/ Enter
    \/ \E how \in {"normal", "raised"} : ExitScope(how)

SpecCache == CacheInit /\ [][CacheNext]_vars

\* The dumps after the i-th one.
Later(i) == (i + 1)..Len(history)

\* C1 (as stated): while the cache directory exists, load(d.id_path) returns
\* the Doc d last dumped under that id path, equal in every field, whatever
\* Docs with other id paths were dumped after it.
C1_RoundTripAnyOtherDumps ==
    \A i \in 1..Len(history) :
        (/\ dirExists
         /\ \A j \in Later(i) : history[j].id_path # history[i].id_path)
            => load(history[i].id_path) = Return(history[i])

\* C1 (amended): while the cache directory exists, load(d.id_path) returns
\* the Doc d, equal in every field, provided no Doc dumped after d has an id
\* path with the same MD5 digest as d.id_path.
C1_RoundTripDistinctDigests ==
    \A i \in 1..Len(history) :
        (/\ dirExists
         /\ \A j \in Later(i) :
                _hashstr(history[j].id_path) # _hashstr(history[i].id_path))
            => load(history[i].id_path) = Return(history[i])

\* A Doc with no input_path was dumped, a Doc with another id path was dumped
\* after it, and the first one has just been loaded back whole.
C1_Witness ==
    /\ Len(history) >= 2
    /\ history[1].input_path = PyNone
    /\ history[2].id_path # history[1].id_path
    /\ lastOp = [op |-> "load", id_path |-> history[1].id_path]
    /\ ret = Return(history[1])

\* C2: once the scope of a DocCacheDir has exited, normally or by a raised
\* failure, the directory and every entry are gone and load fails for every
\* id path, those dumped before the exit included.
C2_LoadFailsAfterExit ==
    scope = "exited" =>
        /\ ~dirExists
        /\ DOMAIN files = {}
        /\ \A id \in CacheIdPaths : load(id) = Raise(Exc("FileNotFoundError"))
        /\ lastOp.op = "load" => ret = Raise(Exc("FileNotFoundError"))

\* The block ended by a raised failure, and a Doc dumped before that has been
\* asked for afterwards.
C2_Witness ==
    /\ scope = "exited"
    /\ exitHow = "raised"
    /\ Len(history) >= 1
    /\ lastOp = [op |-> "load", id_path |-> history[1].id_path]
    /\ ret.kind = "raise"

-----------------------------------------------------------------------------
(* The permalink mapper                                                    *)

\* The id paths of the Docs mapped.
PermIdPaths == {"posts/hello.md", "about.md", "notes/2023/trip.yaml"}

\* PurePath(id_path): name, stem, suffix, str(parent) and parent.stem of the
\* id paths used.
PurePathOf(id_path) ==
    CASE id_path = "posts/hello.md" ->
            [name |-> "hello.md", stem |-> "hello", suffix |-> ".md",
             parent |-> "posts", parent_stem |-> "posts"]
      [] id_path = "about.md" ->
            [name |-> "about.md", stem |-> "about", suffix |-> ".md",
             parent |-> ".", parent_stem |-> ""]
      [] id_path = "notes/2023/trip.yaml" ->
            [name |-> "trip.yaml", stem |-> "trip", suffix |-> ".yaml",
             parent |-> "notes/2023", parent_stem |-> "2023"]
      [] id_path = "data.json" ->
            [name |-> "data.json", stem |-> "data", suffix |-> ".json",
             parent |-> ".", parent_stem |-> ""]

\* A number in at least two digits, as %y, %m and %d print it.
TwoDigits(n) == IF n < 10 THEN "0" \o ToString(n) ELSE ToString(n)

\* datetime.strftime for the four directives the permalink tokens use.
strftime(dt, directive) ==
    CASE directive = "%y" -> TwoDigits(dt.year % 100)
      [] directive = "%Y" -> ToString(dt.year)
      [] directive = "%m" -> TwoDigits(dt.month)
      [] directive = "%d" -> TwoDigits(dt.day)

\* getattr(obj, name) on a namedtuple: a field, or AttributeError.
getattr(obj, name) ==
    IF name \in DOMAIN obj THEN Return(obj[name])
    ELSE Raise(Exc("AttributeError"))

\* The token mapping built from a Doc and the date its tokens are read from.
permalink_tokens(d, date) ==
    [section |-> d.section,
     name |-> PurePathOf(d.id_path).name,
     stem |-> PurePathOf(d.id_path).stem,
     suffix |-> PurePathOf(d.id_path).suffix,
     parents |-> PurePathOf(d.id_path).parent,
     parent |-> PurePathOf(d.id_path).parent_stem,
     yy |-> strftime(date, "%y"),
     yyyy |-> strftime(date, "%Y"),
     mm |-> strftime(date, "%m"),
     dd |-> strftime(date, "%d")]

\* read_doc_permalink: the dictionary's values are evaluated in order, and
\* doc.date is read for the date tokens.
read_doc_permalink(d) ==
    IF getattr(d, "date").kind = "raise" THEN getattr(d, "date")
    ELSE Return(permalink_tokens(d, getattr(d, "date").value))

\* A path template is a sequence of "/"-separated segments, each a sequence
\* of literal texts and {token} fields.
Lit(s) == [lit |-> s]
Tok(name) == [tok |-> name]
IsTok(part) == "tok" \in DOMAIN part

\* "{yyyy}/{stem}.html"
TemplateYearStem == <<<<Tok("yyyy")>>, <<Tok("stem"), Lit(".html")>>>>
\* "{section}/{yy}/{mm}/{dd}/{name}"
TemplateDated ==
    <<<<Tok("section")>>, <<Tok("yy")>>, <<Tok("mm")>>, <<Tok("dd")>>,
      <<Tok("name")>>>>
\* "{parents}//./{parent}-{stem}{suffix}/"
TemplateUnnormalized ==
    <<<<Tok("parents")>>, <<>>, <<Lit(".")>>,
      <<Tok("parent"), Lit("-"), Tok("stem"), Tok("suffix")>>, <<>>>>
\* "{slug}.html"
TemplateUnknownToken == <<<<Tok("slug"), Lit(".html")>>>>

PathTemplates ==
    {TemplateYearStem, TemplateDated, TemplateUnnormalized, TemplateUnknownToken}

TemplateTokens(template) ==
    {template[i][j].tok : <<i, j>> \in
        {<<i, j>> \in (DOMAIN template) \X (1..8) :
            j \in DOMAIN template[i] /\ IsTok(template[i][j])}}

RECURSIVE format_segment(_, _)
\* One segment of str.format: literals copied, fields looked up.
format_segment(parts, tokens) ==
    IF parts = <<>> THEN ""
    ELSE (IF IsTok(Head(parts)) THEN tokens[Head(parts).tok]
          ELSE Head(parts).lit) \o format_segment(Tail(parts), tokens)

\* path_template.format(**tokens): KeyError on a field that is no token.
str_format(template, tokens) ==
    IF TemplateTokens(template) \subseteq DOMAIN tokens
        THEN Return([i \in DOMAIN template |-> format_segment(template[i], tokens)])
        ELSE Raise(Exc("KeyError"))

RECURSIVE join_path(_)
join_path(segments) ==
    IF Len(segments) = 1 THEN Head(segments)
    ELSE Head(segments) \o "/" \o join_path(Tail(segments))

\* str(PurePath(text)) of a relative path given by its segments: empty and
\* "." segments are dropped, and the empty path is ".".
str_PurePath(segments) ==
    LET kept == SelectSeq(segments, LAMBDA seg : seg # "" /\ seg # ".")
    IN IF kept = <<>> THEN "." ELSE join_path(kept)

\* A map_doc_permalink without its except clause.
map_doc_permalink_no_except(d, permalink_templates) ==
    IF d.section \notin DOMAIN permalink_templates THEN Raise(Exc("KeyError"))
    ELSE IF read_doc_permalink(d).kind = "raise" THEN read_doc_permalink(d)
    ELSE LET formatted ==
                 str_format(permalink_templates[d.section],
                            read_doc_permalink(d).value)
         IN IF formatted.kind = "raise" THEN formatted
            ELSE Return([d EXCEPT !.output_path = str_PurePath(formatted.value)])

\* map_doc_permalink: a KeyError (no template for the section, or an unknown
\* field in the template) returns the doc; any other exception propagates.
map_doc_permalink(d, permalink_templates) ==
    IF d.section \notin DOMAIN permalink_templates THEN Return(d)
    ELSE IF read_doc_permalink(d).kind = "raise" THEN read_doc_permalink(d)
    ELSE LET formatted ==
                 str_format(permalink_templates[d.section],
                            read_doc_permalink(d).value)
         IN IF formatted.kind = "raise" THEN Return(d)
            ELSE Return([d EXCEPT !.output_path = str_PurePath(formatted.value)])

PermDates == {PyDatetime(2023, 5, 1), EPOCH, PyDatetime(2009, 12, 31)}

PermDocOf(id, created) ==
    Doc(id,
        IF id = "about.md" THEN "about/index.html"
        ELSE PurePathOf(id).parent \o "/" \o PurePathOf(id).stem \o "/index.html",
        PyStr("content/" \o id), created, created,
        PyStr(PurePathOf(id).stem), "<p>body</p>",
        IF id = "about.md" THEN "" ELSE
            IF id = "posts/hello.md" THEN "posts" ELSE "notes",
        PyDict(EmptyDict), _EMPTY_TUPLE)

PermDocs == {PermDocOf(id, c) : id \in PermIdPaths, c \in PermDates}

\* Every permalink_templates over the sections "posts" and "notes".
PermConfigs ==
    UNION {[S -> PathTemplates] : S \in SUBSET {"posts", "notes"}}

MapDocPermalink ==
    /\ ppc = "ready"
    /\ pret' = map_doc_permalink(pdoc, ptemplates)
    /\ ppc' = "done"
    /\ UNCHANGED <<pdoc, ptemplates, notPerm>>

PermInit ==
    /\ CacheIdle
    /\ ParseIdle
    /\ BuildIdle
    /\ pdoc \in PermDocs
    /\ ptemplates \in PermConfigs
    /\ ppc = "ready"
    /\ pret = Return(PyNone)

PermNext == MapDocPermalink

SpecPermalink == PermInit /\ [][PermNext]_vars

\* The Doc C3 expects: output_path is the section's template formatted with
\* the token mapping (date tokens from created) and normalized.
PermalinkExpected(d, template) ==
    [d EXCEPT !.output_path =
        str_PurePath(str_format(template, permalink_tokens(d, d.created)).value)]

\* C3: for a Doc whose section has a template (all of its fields tokens),
\* map_doc_permalink returns the Doc with output_path set to the formatted,
\* normalized template; "{yyyy}/{stem}.html" on posts/hello.md created
\* 2023-05-01 gives "2023/hello.html".
C3_PermalinkTemplating ==
    (/\ ppc = "done"
     /\ pdoc.section \in DOMAIN ptemplates
     /\ TemplateTokens(ptemplates[pdoc.section])
            \subseteq DOMAIN permalink_tokens(pdoc, pdoc.created))
        => /\ pret = Return(PermalinkExpected(pdoc, ptemplates[pdoc.section]))
           /\ (/\ pdoc.id_path = "posts/hello.md"
               /\ pdoc.created = PyDatetime(2023, 5, 1)
               /\ ptemplates["posts"] = TemplateYearStem)
                  => pret.value.output_path = "2023/hello.html"

\* C8: for a Doc whose section has no entry in permalink_templates,
\* map_doc_permalink raises nothing and returns the Doc unchanged in every
\* field.
C8_MissingTemplateKeepsDoc ==
    (ppc = "done" /\ pdoc.section \notin DOMAIN ptemplates)
        => pret = Return(pdoc)

\* A Doc of section "posts" was mapped under templates that name only "notes".
C8_Witness ==
    /\ ppc = "done"
    /\ pdoc.section = "posts"
    /\ DOMAIN ptemplates = {"notes"}
    /\ pret = Return(pdoc)
    /\ pret.value.output_path = "posts/hello/index.html"

-----------------------------------------------------------------------------
(* uplift_meta and the parsers                                             *)

\* datetime.fromtimestamp for the timestamps used here (UTC).
fromtimestamp(n) ==
    CASE n = 0 -> EPOCH
      [] n = 1682899200 -> PyDatetime(2023, 5, 1)

\* The date strings used here, and the one among them that is a date.
IsDateString(text) == text = "2023-05-01"
parse_date(text) == CASE text = "2023-05-01" -> PyDatetime(2023, 5, 1)

\* lettersmith.date.to_datetime: a datetime is kept, a timestamp or a date
\* string is converted. What an unparseable string gives is left open: it
\* raises, or it falls back to the epoch, as qenv.bad_date says.
to_datetime(v) ==
    CASE v.t = "datetime" -> Return(v)
      [] v.t \in {"float", "int"} -> Return(fromtimestamp(v.n))
      [] v.t = "str" /\ IsDateString(v.s) -> Return(parse_date(v.s))
      [] v.t = "str" /\ ~IsDateString(v.s) ->
            IF qenv.bad_date = "raise" THEN Raise(Exc("ValueError"))
            ELSE Return(EPOCH)
      [] OTHER -> Raise(Exc("TypeError"))

\* doc(): a Doc with its string fields coerced and its dates converted.
doc(id_path, output_path, input_path, created, modified, title, content, section, meta, templates) ==
    Doc(id_path, output_path,
        IF input_path # PyNone THEN PyStr(input_path.s) ELSE PyNone,
        to_datetime(created).value, to_datetime(modified).value,
        PyStr(title.s), content, section,
        IF meta # PyNone THEN meta ELSE PyDict(EmptyDict),
        IF templates # PyNone THEN templates ELSE _EMPTY_TUPLE)

\* dict.get(key, default)
dict_get(m, key, default) ==
    IF key \in DOMAIN m.items THEN m.items[key] ELSE default

\* An uplift_meta that reads "created" for both dates.
uplift_meta_created_twice(d) ==
    IF d.meta.t # "dict" THEN Raise(Exc("AttributeError"))
    ELSE LET created == to_datetime(dict_get(d.meta, "created", d.created))
             modified == to_datetime(dict_get(d.meta, "created", d.modified))
         IN IF created.kind = "raise" THEN created
            ELSE IF modified.kind = "raise" THEN modified
            ELSE Return([d EXCEPT !.title = dict_get(d.meta, "title", d.title),
                                  !.created = created.value,
                                  !.modified = modified.value])

\* uplift_meta: doc.meta.get needs a mapping; title is taken as it is,
\* created and modified go through to_datetime.
uplift_meta(d) ==
    IF d.meta.t # "dict" THEN Raise(Exc("AttributeError"))
    ELSE LET created == to_datetime(dict_get(d.meta, "created", d.created))
             modified == to_datetime(dict_get(d.meta, "modified", d.modified))
         IN IF created.kind = "raise" THEN created
            ELSE IF modified.kind = "raise" THEN modified
            ELSE Return([d EXCEPT !.title = dict_get(d.meta, "title", d.title),
                                  !.created = created.value,
                                  !.modified = modified.value])

\* uplifts_meta(func): uplift_meta of what func returns.
uplifts_meta(result) ==
    IF result.kind = "raise" THEN result ELSE uplift_meta(result.value)

DocException(id_path, stage, cause) ==
    [type |-> "DocException", id_path |-> id_path, stage |-> stage,
     cause |-> cause]

\* annotates_exceptions(func): an Exception raised by func is re-raised as a
\* DocException naming the doc and module.qualname, from the original.
annotates_exceptions(result, d, qualname) ==
    IF result.kind = "raise"
        THEN Raise(DocException(d.id_path, "lettersmith.doc." \o qualname,
                                result.exc))
        ELSE result

\* The bodies parsed.
YamlTitle == "title: Test"
JsonObject == "{\"title\": \"Test\", \"created\": 0}"
JsonArray == "[1, 2]"
YamlBadDate == "created: soon"
YamlUnclosed == "title: [unclosed"
FrontMatter == "---\ntitle: Hi\nmodified: '2023-05-01'\n---\nBody"
FrontMatterUnclosed == "---\ntitle: [unclosed\n---\nBody"

ParseContents ==
    {YamlTitle, JsonObject, JsonArray, YamlBadDate, YamlUnclosed, FrontMatter,
     FrontMatterUnclosed}

JsonObjectValue ==
    PyDict([title |-> PyStr("Test"), created |-> [t |-> "int", n |-> 0]])
JsonArrayValue == PyList(<<[t |-> "int", n |-> 1], [t |-> "int", n |-> 2]>>)

\* frontmatter.parse(text): (metadata, content); malformed YAML in the
\* header raises.
frontmatter_parse(text) ==
    CASE text = FrontMatter ->
            Return([meta |-> PyDict([title |-> PyStr("Hi"),
                                     modified |-> PyStr("2023-05-01")]),
                    content |-> "Body"])
      [] text = FrontMatterUnclosed -> Raise(Exc("yaml.parser.ParserError"))
      [] OTHER -> Return([meta |-> PyDict(EmptyDict), content |-> text])

\* yaml.load(text), called without a Loader: a TypeError where the installed
\* PyYAML requires one.
yaml_load(text) ==
    IF qenv.yaml_needs_loader THEN Raise(Exc("TypeError"))
    ELSE CASE text = YamlTitle -> Return(PyDict([title |-> PyStr("Test")]))
           [] text = JsonObject -> Return(JsonObjectValue)
           [] text = JsonArray -> Return(JsonArrayValue)
           [] text = YamlBadDate -> Return(PyDict([created |-> PyStr("soon")]))
           [] text = YamlUnclosed -> Raise(Exc("yaml.parser.ParserError"))
           [] text = FrontMatter -> Raise(Exc("yaml.composer.ComposerError"))
           [] text = FrontMatterUnclosed -> Raise(Exc("yaml.parser.ParserError"))

\* json.loads(text)
json_loads(text) ==
    CASE text = JsonObject -> Return(JsonObjectValue)
      [] text = JsonArray -> Return(JsonArrayValue)
      [] OTHER -> Raise(Exc("json.decoder.JSONDecodeError"))

parse_frontmatter_body(d) ==
    IF frontmatter_parse(d.content).kind = "raise"
        THEN frontmatter_parse(d.content)
        ELSE Return([d EXCEPT !.meta = frontmatter_parse(d.content).value.meta,
                              !.content =
                                  frontmatter_parse(d.content).value.content])

\* @annotates_exceptions def parse_frontmatter
parse_frontmatter(d) ==
    annotates_exceptions(parse_frontmatter_body(d), d, "parse_frontmatter")

parse_yaml_body(d) ==
    IF yaml_load(d.content).kind = "raise" THEN yaml_load(d.content)
    ELSE Return([d EXCEPT !.meta = yaml_load(d.content).value, !.content = ""])

\* @uplifts_meta @annotates_exceptions def parse_yaml
parse_yaml(d) ==
    uplifts_meta(annotates_exceptions(parse_yaml_body(d), d, "parse_yaml"))

parse_json_body(d) ==
    IF json_loads(d.content).kind = "raise" THEN json_loads(d.content)
    ELSE Return([d EXCEPT !.meta = json_loads(d.content).value, !.content = ""])

\* @uplifts_meta @annotates_exceptions def parse_json
parse_json(d) ==
    uplifts_meta(annotates_exceptions(parse_json_body(d), d, "parse_json"))

Parsers == {"parse_frontmatter", "parse_yaml", "parse_json"}

apply_parser(fun, d) ==
    CASE fun = "parse_frontmatter" -> parse_frontmatter(d)
      [] fun = "parse_yaml" -> parse_yaml(d)
      [] fun = "parse_json" -> parse_json(d)

\* The Docs parsed: as load() builds them, with the file's times either as
\* timestamps or as datetimes.
ParseDocs ==
    {doc("notes/entry.yaml", "notes/entry/index.html",
         PyStr("content/notes/entry.yaml"), times, times, PyStr("Entry"),
         content, "notes", PyDict(EmptyDict), PyNone) :
        content \in ParseContents,
        times \in {PyNum(0), PyNum(1682899200), PyDatetime(2009, 12, 31)}}

\* One of the three parsers is applied to the Doc.
Parse ==
    /\ qpc = "ready"
    /\ qret' = apply_parser(qfun, qdoc)
    /\ qpc' = "parsed"
    /\ UNCHANGED <<qdoc, qfun, qenv, qup1, qup2, notParse>>

\* uplift_meta of the parsed Doc.
UpliftOnce ==
    /\ qpc = "parsed"
    /\ qret.kind = "return"
    /\ qup1' = uplift_meta(qret.value)
    /\ qpc' = "once"
    /\ UNCHANGED <<qdoc, qfun, qenv, qret, qup2, notParse>>

\* uplift_meta of the uplifted Doc.
UpliftTwice ==
    /\ qpc = "once"
    /\ qup1.kind = "return"
    /\ qup2' = uplift_meta(qup1.value)
    /\ qpc' = "twice"
    /\ UNCHANGED <<qdoc, qfun, qenv, qret, qup1, notParse>>

ParseInit ==
    /\ CacheIdle
    /\ PermIdle
    /\ BuildIdle
    /\ qdoc \in ParseDocs
    /\ qfun \in Parsers
    /\ qenv \in [yaml_needs_loader : BOOLEAN, bad_date : {"raise", "epoch"}]
    /\ qpc = "ready"
    /\ qret = Return(PyNone)
    /\ qup1 = Return(PyNone)
    /\ qup2 = Return(PyNone)

ParseNext == Parse \/ UpliftOnce \/ UpliftTwice

SpecParse == ParseInit /\ [][ParseNext]_vars

\* C5: an exception raised inside parse_frontmatter, parse_yaml or
\* parse_json, the uplift it applies included, reaches the caller as a
\* DocException carrying the Doc's id_path and the failing stage's name, with
\* the original exception as its cause.
C5_ErrorsAreDocExceptions ==
    (qpc # "ready" /\ qret.kind = "raise")
        => /\ qret.exc.type = "DocException"
           /\ qret.exc.id_path = qdoc.id_path
           /\ qret.exc.stage = "lettersmith.doc." \o qfun
           /\ qret.exc.cause.type # "DocException"

\* C9: where uplift_meta(d) returns, its title, created and modified are
\* those of d.meta when present (the dates converted by to_datetime) and d's
\* own otherwise, every other field is d's, and uplifting the result again
\* changes nothing.
C9_UpliftOverridesOnce ==
    /\ (qpc \in {"once", "twice"} /\ qup1.kind = "return") =>
          LET d == qret.value
              u == qup1.value
          IN /\ u.title = dict_get(d.meta, "title", d.title)
             /\ u.created =
                    IF "created" \in DOMAIN d.meta.items
                        THEN to_datetime(d.meta.items["created"]).value
                        ELSE d.created
             /\ u.modified =
                    IF "modified" \in DOMAIN d.meta.items
                        THEN to_datetime(d.meta.items["modified"]).value
                        ELSE d.modified
             /\ \A f \in {"id_path", "output_path", "input_path", "content",
                          "section", "meta", "templates"} : u[f] = d[f]
    /\ qpc = "twice" => qup2 = qup1

\* A Doc whose header set title and modified but not created was uplifted
\* twice.
C9_Witness ==
    /\ qpc = "twice"
    /\ qfun = "parse_frontmatter"
    /\ qdoc.content = FrontMatter
    /\ qup1.kind = "return"
    /\ qup1.value.title = PyStr("Hi")
    /\ qup1.value.modified = PyDatetime(2023, 5, 1)
    /\ qup1.value.created = qdoc.created
    /\ qup1.value.modified # qdoc.modified
    /\ qup2 = qup1

-----------------------------------------------------------------------------
(* main(): one build                                                       *)

\* Most content files of one build.
MaxSources == 3

\* The content files a build may find: id path, text, and whether the theme
\* has a template for the Doc.
HelloFiles ==
    {[id_path |-> "posts/hello.md", content |-> c, template_ok |-> t] :
        c \in {FrontMatter, FrontMatterUnclosed}, t \in BOOLEAN}
AboutFiles ==
    {[id_path |-> "about.md", content |-> FrontMatter, template_ok |-> t] :
        t \in BOOLEAN}
TripFiles ==
    {[id_path |-> "notes/2023/trip.yaml", content |-> c, template_ok |-> TRUE] :
        c \in {YamlTitle, YamlUnclosed, JsonArray}}
DataFiles ==
    {[id_path |-> "data.json", content |-> c, template_ok |-> TRUE] :
        c \in {JsonObject, JsonArray}}

\* None or one of a set of files, as a sequence.
Optional(S) == {<<>>} \cup {<<f>> : f \in S}

\* chain(md_docs, yaml_docs, json_docs): the Markdown files in either order,
\* then the YAML file, then the JSON file.
SourceLists ==
    {l \in {md \o y \o j :
                md \in {h \o a : h \in Optional(HelloFiles),
                                 a \in Optional(AboutFiles)}
                       \cup {a \o h : h \in Optional(HelloFiles),
                                      a \in Optional(AboutFiles)},
                y \in Optional(TripFiles), j \in Optional(DataFiles)} :
        Len(l) <= MaxSources}

\* The configuration file's keys that main() reads and this model varies.
ConfigValue(key) ==
    CASE key = "static_paths" -> <<"static">>
      [] key = "permalink_templates" -> [posts |-> TemplateYearStem]
      [] key = "output_path" -> "out"

BuildConfigs ==
    {[k \in K |-> ConfigValue(k)] :
        K \in SUBSET {"static_paths", "permalink_templates", "output_path"}}

\* config.get(key, default)
config_get(cfg, key, default) == IF key \in DOMAIN cfg THEN cfg[key] ELSE default

\* pathtools.to_nice_path(id_path): an extensionless directory holding an
\* index file.
to_nice_path(id_path) ==
    (IF PurePathOf(id_path).parent = "." THEN ""
     ELSE PurePathOf(id_path).parent \o "/")
        \o PurePathOf(id_path).stem \o "/index" \o PurePathOf(id_path).suffix

\* pathtools.tld(id_path): the first segment under the content root.
tld(id_path) ==
    CASE id_path = "posts/hello.md" -> "posts"
      [] id_path = "notes/2023/trip.yaml" -> "notes"
      [] OTHER -> ""

\* Doc.load(path, relative_to): the file as a Doc with empty meta.
load_file(f) ==
    doc(f.id_path, to_nice_path(f.id_path), PyStr("content/" \o f.id_path),
        PyNum(0), PyNum(0), PyStr(PurePathOf(f.id_path).stem), f.content,
        tld(f.id_path), PyDict(EmptyDict), PyNone)

\* The Markdown body rendered to HTML, unless an earlier step raised.
render_markdown(result) ==
    IF result.kind = "raise" THEN result
    ELSE Return([result.value EXCEPT
                    !.content = "<p>" \o result.value.content \o "</p>"])

\* markdowntools.render_doc: header parsed, meta uplifted, body rendered.
render_doc(d) == render_markdown(uplifts_meta(parse_frontmatter(d)))

\* PurePath(output_path).with_suffix(ext) for the nice paths above.
with_suffix(path, ext) ==
    CASE path = "posts/hello/index.md" -> "posts/hello/index" \o ext
      [] path = "about/index.md" -> "about/index" \o ext
      [] path = "notes/2023/trip/index.yaml" -> "notes/2023/trip/index" \o ext
      [] path = "data/index.json" -> "data/index" \o ext

\* change_ext(doc, ext)
change_ext(d, ext) == [d EXCEPT !.output_path = with_suffix(d.output_path, ext)]

\* Line 73: change_ext(doc, ".html") of each Doc the parsers gave.
change_ext_html(result) ==
    IF result.kind = "raise" THEN result
    ELSE Return(change_ext(result.value, ".html"))

\* Lines 75-78: map_doc_permalink of each Doc.
map_permalinks(result, permalink_templates) ==
    IF result.kind = "raise" THEN result
    ELSE map_doc_permalink(result.value, permalink_templates)

\* The parser main() gives a content file, by the glob that found it.
parse_source(d) ==
    CASE PurePathOf(d.id_path).suffix = ".md" -> render_doc(d)
      [] PurePathOf(d.id_path).suffix = ".yaml" -> parse_yaml(d)
      [] PurePathOf(d.id_path).suffix = ".json" -> parse_json(d)

\* One Doc pulled through the generators of lines 53-78: loaded, parsed,
\* extension changed, permalink mapped. (uplift_wikilinks and absolutize
\* rewrite link tokens and root-relative URLs; the bodies here hold none.
\* add_templates records template names; whether the theme has a template
\* for the Doc is the file's template_ok.)
transform(f, permalink_templates) ==
    map_permalinks(change_ext_html(parse_source(load_file(f))),
                   permalink_templates)

\* The feed and the sitemap, generated from the stubs.
GeneratedDocs ==
    <<Doc("feed.rss", "feed.rss", PyNone, EPOCH, EPOCH, PyStr(""), "<rss/>",
          "", PyDict(EmptyDict), _EMPTY_TUPLE),
      Doc("sitemap.xml", "sitemap.xml", PyNone, EPOCH, EPOCH, PyStr(""),
          "<urlset/>", "", PyDict(EmptyDict), _EMPTY_TUPLE)>>

\* Whether the theme has a template for the Doc: for a content file as the
\* file says, for a generated Doc always.
TemplateFound(id_path) ==
    \A i \in 1..Len(sources) :
        sources[i].id_path = id_path => sources[i].template_ok

\* render_jinja(doc) of what the chain gave: the Doc rendered, or the missing
\* template raised.
render_jinja(result) ==
    IF result.kind = "raise" THEN result
    ELSE IF TemplateFound(result.value.id_path) THEN result
    ELSE Raise(Exc("jinja2.exceptions.TemplateNotFound"))

Event(what) == [what |-> what, scope |-> scope, dir |-> dirExists]

\* Lines 31-50: the configuration values are read, static_paths among them.
ReadConfig ==
    /\ bpc = "args"
    /\ static_paths' = config_get(config, "static_paths", <<>>)
    /\ bpc' = "construct"
    /\ UNCHANGED <<config, config0, sources, idx, pending, cached, written,
                   stats, stdout, error, events, copyResult>>
    /\ UNCHANGED <<dirExists, files, scope, exitHow, notBuild>>

\* DocCacheDir.__init__, lines 369-370: the temporary directory is made.
ConstructCache ==
    /\ bpc = "construct"
    /\ dirExists' = TRUE
    /\ files' = EmptyDict
    /\ scope' = "constructed"
    /\ bpc' = "dump_all"
    /\ UNCHANGED <<config, config0, sources, idx, pending, cached, written,
                   stats, stdout, error, events, copyResult, static_paths>>
    /\ UNCHANGED <<exitHow, notBuild>>

\* DocCacheDir.__init__, line 371: dump_all pulls the next Doc through the
\* generators and dumps it; an exception of a transformation leaves __init__.
DumpNext ==
    /\ bpc = "dump_all"
    /\ idx < Len(sources)
    /\ LET r == transform(sources[idx + 1],
                          config_get(config, "permalink_templates", EmptyDict))
       IN /\ events' = events \cup {Event("transform")}
          /\ IF r.kind = "raise"
                THEN /\ error' = r.exc
                     /\ bpc' = "failed"
                     /\ UNCHANGED <<files, idx>>
                ELSE /\ files' = dump_files(r.value)
                     /\ idx' = idx + 1
                     /\ UNCHANGED <<error, bpc>>
    /\ UNCHANGED <<config, config0, sources, pending, cached, written, stats,
                   stdout, copyResult, static_paths>>
    /\ UNCHANGED <<dirExists, scope, exitHow, notBuild>>

\* DocCacheDir.__enter__: every Doc is dumped and the with-block starts.
EnterScope ==
    /\ bpc = "dump_all"
    /\ idx = Len(sources)
    /\ scope' = "entered"
    /\ bpc' = "stubs"
    /\ UNCHANGED <<config, config0, sources, idx, pending, cached, written,
                   stats, stdout, error, events, copyResult, static_paths>>
    /\ UNCHANGED <<dirExists, files, exitHow, notBuild>>

\* Lines 82-153: stubs from the cached Docs, the generated Docs, the index
\* and the template context; the second load_all and the renderers are set
\* up and run nothing yet.
Generate ==
    /\ bpc = "stubs"
    /\ cached' = {pickle_load(files[n]).id_path : n \in DOMAIN files}
    /\ pending' = GeneratedDocs
    /\ events' = events \cup {Event("generate")}
    /\ bpc' = "write"
    /\ UNCHANGED <<config, config0, sources, idx, written, stats, stdout,
                   error, copyResult, static_paths>>
    /\ UNCHANGED <<dirExists, files, scope, exitHow, notBuild>>

\* Docs.write takes the next Doc from the chain, which renders it (r), and
\* writes it before taking another; the renderer's exception passes through
\* Docs.write and leaves the with-block.
RenderAndWrite(r) ==
    /\ IF r.kind = "raise"
          THEN /\ error' = r.exc
               /\ bpc' = "unwind"
               /\ events' = events \cup {Event("render")}
               /\ UNCHANGED <<written, stats>>
          ELSE /\ written' = Append(written, r.value.output_path)
               /\ stats' = stats + 1
               /\ events' = events \cup {Event("render"), Event("write")}
               /\ UNCHANGED <<error, bpc>>
    /\ UNCHANGED <<config, config0, sources, idx, stdout, copyResult,
                   static_paths>>
    /\ UNCHANGED <<dirExists, files, scope, exitHow, notBuild>>

\* Line 155, a cached Doc: load_all gives the cache files in the order the
\* directory lists them.
WriteCached(id_path) ==
    /\ bpc = "write"
    /\ id_path \in cached
    /\ cached' = cached \ {id_path}
    /\ RenderAndWrite(render_jinja(load(id_path)))
    /\ UNCHANGED pending

\* Line 155, a generated Doc: they follow the cached Docs in the chain.
WriteGenerated ==
    /\ bpc = "write"
    /\ cached = {}
    /\ pending # <<>>
    /\ pending' = Tail(pending)
    /\ RenderAndWrite(render_jinja(Return(Head(pending))))
    /\ UNCHANGED cached

\* The with-block ends after the last write.
ExitNormal ==
    /\ bpc = "write"
    /\ cached = {}
    /\ pending = <<>>
    /\ DocCacheDir_exit("normal")
    /\ bpc' = "static"
    /\ UNCHANGED <<config, config0, sources, idx, pending, cached, written,
                   stats, stdout, error, events, copyResult, static_paths>>
    /\ UNCHANGED notBuild

\* An exception that leaves the with-block without __exit__ being run.
ExitRaisedNoCleanup ==
    /\ bpc = "unwind"
    /\ bpc' = "failed"
    /\ scope' = "exited"
    /\ exitHow' = "raised"
    /\ UNCHANGED <<config, config0, sources, idx, pending, cached, written,
                   stats, stdout, error, events, copyResult, static_paths>>
    /\ UNCHANGED <<dirExists, files, notBuild>>

\* The with-block ends by the exception raised inside it, which goes on to
\* end main().
ExitRaised ==
    /\ bpc = "unwind"
    /\ DocCacheDir_exit("raised")
    /\ bpc' = "failed"
    /\ UNCHANGED <<config, config0, sources, idx, pending, cached, written,
                   stats, stdout, error, events, copyResult, static_paths>>
    /\ UNCHANGED notBuild

\* What copy_all does: it returns, or the copy command's non-zero exit is
\* raised.
CopyOutcomes == {"ok", "CalledProcessError"}

\* The static configuration paths after line 159, as config holds them.
config_after_append(cfg, path) ==
    IF "static_paths" \in DOMAIN cfg
        THEN [cfg EXCEPT !["static_paths"] = Append(@, path)]
        ELSE cfg

\* Lines 157-162 without the except clause.
CopyStaticUncaught(outcome) ==
    /\ bpc = "static"
    /\ config' = config_after_append(config, "theme/static")
    /\ static_paths' =
           Append(config_get(config, "static_paths", <<>>), "theme/static")
    /\ copyResult' = outcome
    /\ events' = events \cup {Event("copy")}
    /\ IF outcome = "ok"
          THEN bpc' = "summary" /\ UNCHANGED error
          ELSE bpc' = "failed" /\ error' = Exc(outcome)
    /\ UNCHANGED <<config0, sources, idx, pending, cached, written, stats,
                   stdout>>
    /\ UNCHANGED <<dirExists, files, scope, exitHow, notBuild>>

\* Lines 157-162: static_paths is config's own list when the key is set, and
\* the theme's static directory is appended to it; copy_all runs; a
\* CalledProcessError is passed over.
CopyStatic(outcome) ==
    /\ bpc = "static"
    /\ config' = config_after_append(config, "theme/static")
    /\ static_paths' =
           Append(config_get(config, "static_paths", <<>>), "theme/static")
    /\ copyResult' = outcome
    /\ events' = events \cup {Event("copy")}
    /\ bpc' = "summary"
    /\ UNCHANGED <<config0, sources, idx, pending, cached, written, stats,
                   stdout, error>>
    /\ UNCHANGED <<dirExists, files, scope, exitHow, notBuild>>

\* Lines 164-167
PrintSummary ==
    /\ bpc = "summary"
    /\ stdout' = Append(stdout,
           "Done! Generated " \o ToString(stats) \o " files in \""
               \o config_get(config, "output_path", "public") \o "\"")
    /\ bpc' = "done"
    /\ UNCHANGED <<config, config0, sources, idx, pending, cached, written,
                   stats, error, events, copyResult, static_paths>>
    /\ UNCHANGED <<dirExists, files, scope, exitHow, notBuild>>

\* A DocCacheDir whose __init__ raised is never entered nor exited: its
\* TemporaryDirectory is removed by that object's finalizer.
ImplicitCleanup ==
    /\ bpc = "failed"
    /\ scope = "constructed"
    /\ dirExists
    /\ dirExists' = FALSE
    /\ files' = EmptyDict
    /\ UNCHANGED <<scope, exitHow, notBuild, buildVars>>

BuildInit ==
    /\ PermIdle
    /\ ParseIdle
    /\ dirExists = FALSE
    /\ files = EmptyDict
    /\ scope = "none"
    /\ exitHow = "none"
    /\ history = <<>>
    /\ lastOp = [op |-> "none", id_path |-> ""]
    /\ ret = Return(PyNone)
    /\ bpc = "args"
    /\ config \in BuildConfigs
    /\ config0 = config
    /\ sources \in SourceLists
    /\ idx = 0
    /\ pending = <<>>
    /\ cached = {}
    /\ written = <<>>
    /\ stats = 0
    /\ stdout = <<>>
    /\ error = PyNone
    /\ events = {}
    /\ copyResult = "none"
    /\ static_paths = <<>>

BuildNext ==
    \/ ReadConfig
    \/ ConstructCache
    \/ DumpNext
    \/ EnterScope
    \/ Generate
    \/ \E id \in cached : WriteCached(id)
    \/ WriteGenerated
    \/ ExitNormal
    \/ ExitRaised
    \/ \E outcome \in CopyOutcomes : CopyStatic(outcome)
    \/ PrintSummary
    \/ ImplicitCleanup

SpecBuild == BuildInit /\ [][BuildNext]_vars

\* C4: when every document was written and the static copy then reports a
\* failure, main() goes on to its summary: no exception ends it, and once it
\* is done it has printed 'Done! Generated <N> files in "<output_path>"' for
\* the N Docs written.
C4_CopyFailureIsNotFatal ==
    copyResult = "CalledProcessError" =>
        /\ bpc \in {"summary", "done"}
        /\ error = PyNone
        /\ cached = {} /\ pending = <<>>
        /\ bpc = "done" =>
              stdout = <<"Done! Generated " \o ToString(Len(written))
                            \o " files in \""
                            \o config_get(config0, "output_path", "public")
                            \o "\"">>

\* A build of two content files wrote them, the feed and the sitemap, had its
\* static copy fail, and is done.
C4_Witness ==
    /\ bpc = "done"
    /\ copyResult = "CalledProcessError"
    /\ Len(sources) = 2
    /\ Len(written) = 4
    /\ stdout = <<"Done! Generated 4 files in \"public\"">>

\* C6: a build ended by the failure of a document's processing or rendering
\* has printed no summary and has written no Doc to the output directory.
C6_FailedBuildWroteNothing ==
    bpc \in {"unwind", "failed"} => (stdout = <<>> /\ written = <<>>)

ScopedWork == {"generate", "render", "write"}

\* C7 (as stated): every per-Doc transformation, the generation of the
\* feed and sitemap, every render and every write run with the cache scope
\* entered and its directory on disk; the static copy runs with the scope
\* exited; and however main() ends, the directory is gone.
C7_ScopeBracketsPipeline ==
    /\ \A e \in events :
          /\ e.what \in ScopedWork \cup {"transform"} =>
                (e.scope = "entered" /\ e.dir)
          /\ e.what = "copy" => (e.scope = "exited" /\ ~e.dir)
    /\ bpc \in {"static", "summary", "done", "failed"} =>
          (scope = "exited" /\ ~dirExists)

\* C7 (amended): the per-Doc transformations run while the DocCacheDir is
\* being constructed, its directory on disk and its scope not yet entered;
\* generation, renders and writes run with the scope entered and the
\* directory on disk; the static copy runs with the scope exited; and once
\* main() has left a scope it entered, normally or by an exception, the
\* directory is gone.
C7_ConstructionThenScope ==
    /\ \A e \in events :
          /\ e.what = "transform" => (e.scope = "constructed" /\ e.dir)
          /\ e.what \in ScopedWork => (e.scope = "entered" /\ e.dir)
          /\ e.what = "copy" => (e.scope = "exited" /\ ~e.dir)
    /\ bpc \in {"stubs", "write", "unwind"} => (scope = "entered" /\ dirExists)
    /\ bpc \in {"static", "summary", "done"} => (scope = "exited" /\ ~dirExists)
    /\ (bpc = "failed" /\ scope # "constructed") =>
          (scope = "exited" /\ ~dirExists)

\* A build whose third Doc had no template: two Docs were transformed, the
\* feed and sitemap generated, one Doc written, and the exception has left
\* the scope and ended main().
C7_Witness ==
    /\ bpc = "failed"
    /\ exitHow = "raised"
    /\ {e.what : e \in events} = {"transform", "generate", "render", "write"}
    /\ Len(written) = 1

\* C10: the configuration mapping keeps, until the build ends, the keys and
\* values it was loaded with, the contents of static_paths included.
C10_ConfigImmutable == config = config0

=============================================================================
